---- MODULE Spec2Model ----
(***************************************************************************)
(* Model of the in-memory conversation store of the customer service bot:  *)
(* src/src/bot/session_memory.py (class SessionMemory and its background   *)
(* cleanup task).  Time is counted in minutes.                             *)
(*                                                                         *)
(*   sessions, session_last_activity  the two dictionaries of the store    *)
(*   max_messages, session_timeout    its configuration                    *)
(*   now                              the wall clock (datetime.now())      *)
(*   sweep_pc, wake_at, expired       the cleanup coroutine: where it is,  *)
(*                                    when its sleep ends, and its local   *)
(*                                    list expired_sessions                *)
(*   torn                             the store object was destroyed       *)
(*   ret                              what the last call returned          *)
(*   appended, n_adds                 history variables: every message     *)
(*                                    appended to a live session since it  *)
(*                                    was created; number of add_message   *)
(*                                    calls so far                         *)
(*                                                                         *)
(* Two more components are modelled beside it, each with a specification   *)
(* of its own:                                                             *)
(*                                                                         *)
(*   requests                         the calls of                         *)
(*                                    PureAIAgent.process_message          *)
(*                                    (src/src/bot/pure_ai_agent.py), which*)
(*                                    use the store                        *)
(*   conversations, session_contexts, the ConversationMemoryManager of     *)
(*   max_history_length               src/src/core/memory_manager.py       *)
(***************************************************************************)
EXTENDS Integers, Sequences, FiniteSets, TLC

VARIABLES sessions, session_last_activity, max_messages, session_timeout,
          now, sweep_pc, wake_at, expired, torn, appended, n_adds, ret,
          requests, conversations, session_contexts, max_history_length

vars == <<sessions, session_last_activity, max_messages, session_timeout,
          now, sweep_pc, wake_at, expired, torn, appended, n_adds, ret,
          requests, conversations, session_contexts, max_history_length>>

\* What the store's own steps leave alone: the calls of
\* PureAIAgent.process_message in flight, and the ConversationMemoryManager.
others == <<requests, conversations, session_contexts, max_history_length>>

store == <<sessions, session_last_activity>>

\* ------------------------------------------------------------------ bounds
MaxTime == 5
MaxCap == 2
TimeoutMinutes == 2
ShortTimeout == 1
MaxAdds == 2
MaxK == 3
MaxRequests == 2
TimeoutHours == 2
MaxTurns == 2

\* ------------------------------------------------------------- input sets
UserIds == {"u1", "u2"}
Contents == {"a", "b"}
Senders == {"user", "bot"}
\* The optional argument last_n_messages: None or a number.
LastNArgs == {<<>>} \cup {<<k>> : k \in 0..MaxK}

\* --------------------------------------------------------- program values
SweepInterval == 5
ErrorBackoff == 1
StartSentinel == "This is the start of the conversation."
DefaultMaxMessages == 50
DefaultTimeoutMinutes == 60
DefaultContextLength == 6
DefaultHistoryLength == 20

\* Python's None / Optional[str]: an absent value is the empty tuple.
None == <<>>
Some(x) == <<x>>

Min(a, b) == IF a < b THEN a ELSE b
Max(a, b) == IF a > b THEN a ELSE b

\* ------------------------------------------------------------ dictionaries
EmptyDict == [k \in {} |-> 0]
DictSet(d, k, v) == [x \in (DOMAIN d) \cup {k} |-> IF x = k THEN v ELSE d[x]]
DictDel(d, k) == [x \in (DOMAIN d) \ {k} |-> d[x]]
DictDelAll(d, ks) == [x \in (DOMAIN d) \ ks |-> d[x]]

\* Python list slice lst[start:] for any integer start.
PySliceFrom(lst, start) ==
    LET n == Len(lst)
        s == IF start < 0 THEN Max(n + start, 0) ELSE Min(start, n)
    IN  SubSeq(lst, s + 1, n)

\* Python list slice lst[-n:].
PyLast(lst, n) == PySliceFrom(lst, 0 - n)

\* ConversationMessage(content, sender): the timestamp is read at creation.
ConversationMessage(content, sender, t) ==
    [content |-> content, sender |-> sender, timestamp |-> t]

\* Mutant of get_session_id: the user id is not interpolated into the key.
get_session_id_shared(user_id) == "session_"

get_session_id(user_id) == "session_" \o user_id

\* --------------------------------------------------------- read operations
\* Python truthiness of an Optional[int] argument: None and 0 are false.
Truthy(opt) == opt # None /\ opt[1] # 0

\* datetime.isoformat(): the textual form of a point in time.
isoformat(t) == "T" \o ToString(t)

\* ConversationMessage.to_dict
to_dict(msg) ==
    [content |-> msg.content, sender |-> msg.sender, timestamp |-> isoformat(msg.timestamp)]

\* Mutant of get_conversation_history: the membership test is missing, so an
\* unknown user ends in a KeyError.
get_conversation_history_unguarded(S, user_id, last_n_messages) ==
    LET session_id == get_session_id(user_id)
    IN  IF session_id \notin DOMAIN S THEN <<"KeyError">>
        ELSE LET all == S[session_id]
                 messages == IF Truthy(last_n_messages)
                             THEN PyLast(all, last_n_messages[1])
                             ELSE all
             IN  [i \in 1..Len(messages) |-> to_dict(messages[i])]

\* SessionMemory.get_conversation_history; last_n_messages is None or Some(k).
get_conversation_history(S, user_id, last_n_messages) ==
    LET session_id == get_session_id(user_id)
    IN  IF session_id \notin DOMAIN S THEN <<>>
        ELSE LET all == S[session_id]
                 messages == IF Truthy(last_n_messages)
                             THEN PyLast(all, last_n_messages[1])
                             ELSE all
             IN  [i \in 1..Len(messages) |-> to_dict(messages[i])]

\* Mutant of ScanReversed: the list is scanned from its first message.
ScanFromStart(lst, i, sender) ==
    LET idx == {j \in 1..i : lst[j].sender = sender}
    IN  IF idx = {} THEN None
        ELSE Some(lst[CHOOSE j \in idx : \A k \in idx : j <= k].content)

\* for message in reversed(lst): if message.sender == sender: return content
RECURSIVE ScanReversed(_, _, _)
ScanReversed(lst, i, sender) ==
    IF i = 0 THEN None
    ELSE IF lst[i].sender = sender THEN Some(lst[i].content)
    ELSE ScanReversed(lst, i - 1, sender)

\* SessionMemory.get_last_user_message
get_last_user_message(S, user_id) ==
    LET session_id == get_session_id(user_id)
    IN  IF session_id \notin DOMAIN S THEN None
        ELSE ScanReversed(S[session_id], Len(S[session_id]), "user")

\* SessionMemory.get_last_bot_message
get_last_bot_message(S, user_id) ==
    LET session_id == get_session_id(user_id)
    IN  IF session_id \notin DOMAIN S THEN None
        ELSE ScanReversed(S[session_id], Len(S[session_id]), "bot")

\* "\n".join(lines)
RECURSIVE JoinLines(_)
JoinLines(lines) ==
    IF Len(lines) = 0 THEN ""
    ELSE IF Len(lines) = 1 THEN lines[1]
    ELSE lines[1] \o "\n" \o JoinLines(Tail(lines))

\* The line get_conversation_context writes for one history record.
ContextLine(msg) ==
    (IF msg.sender = "user" THEN "Customer" ELSE "Assistant") \o ": " \o msg.content

\* SessionMemory.get_conversation_context
get_conversation_context(S, user_id, context_length) ==
    LET history == get_conversation_history(S, user_id, Some(context_length))
    IN  IF history = <<>> THEN StartSentinel
        ELSE JoinLines([i \in 1..Len(history) |-> ContextLine(history[i])])

\* Mutant of SumLens: every session counts as one message.
SumLensPerSession(S, keys) == Cardinality(keys)

\* sum(len(msgs) for msgs in self.sessions.values()), over the given keys.
RECURSIVE SumLens(_, _)
SumLens(S, keys) ==
    IF keys = {} THEN 0
    ELSE LET k == CHOOSE x \in keys : TRUE
         IN  Len(S[k]) + SumLens(S, keys \ {k})

\* total_messages / total_sessions, a fraction; the integer 0 is 0/1.
Fraction(n, d) == [num |-> n, den |-> d]

\* SessionMemory.get_session_stats; active_sessions is given as the key set.
get_session_stats(S) ==
    LET total_sessions == Cardinality(DOMAIN S)
        total_messages == SumLens(S, DOMAIN S)
    IN  [total_sessions |-> total_sessions,
         total_messages |-> total_messages,
         active_sessions |-> DOMAIN S,
         avg_messages_per_session |->
             IF total_sessions > 0 THEN Fraction(total_messages, total_sessions)
             ELSE Fraction(0, 1)]

\* ------------------------------------------------------------ state machine
NoRet == [op |-> "none"]

\* The calls of process_message: none has arrived.
ReqIds == 1..MaxRequests

IdleRequest ==
    [pc |-> "idle", user |-> "", message |-> "", context |-> "",
     action |-> "", appends |-> <<>>, mem_reads |-> {}, response |-> "",
     in_flight |-> {}]

NoRequests == [r \in ReqIds |-> IdleRequest]

Init ==
    /\ sessions = EmptyDict
    /\ session_last_activity = EmptyDict
    /\ \E c \in 0..MaxCap : max_messages = MaxCap - c
    /\ session_timeout = TimeoutMinutes
    /\ now = 0
    /\ sweep_pc = "scan"
    /\ wake_at = 0
    /\ expired = {}
    /\ torn = FALSE
    /\ appended = EmptyDict
    /\ n_adds = 0
    /\ ret = NoRet
    /\ requests = NoRequests
    /\ conversations = EmptyDict
    /\ session_contexts = EmptyDict
    /\ max_history_length = DefaultHistoryLength

\* The cleanup coroutine is ready to run: it was just created, or its sleep
\* is over.  The event loop runs a ready task before a minute passes.
SweepReady ==
    \/ sweep_pc = "scan"
    \/ sweep_pc \in {"sleep", "backoff"} /\ now >= wake_at

\* The cleanup coroutine still has something to wait for: a retry, or a live
\* session that will expire.
SweepPending ==
    /\ sweep_pc # "cancelled"
    /\ sweep_pc = "backoff" \/ session_last_activity # EmptyDict

\* The minute by which a coroutine that loops has removed every session:
\* the last call arrives at MaxTime, its session is idle for longer than
\* the timeout one minute after TimeoutMinutes, and a pass is at most one
\* interval away.
Horizon == MaxTime + TimeoutMinutes + 1 + SweepInterval

\* The wall clock advances by a minute.  Calls arrive up to minute MaxTime;
\* after that the clock is followed for as long as the coroutine is pending.
Tick ==
    /\ now < MaxTime \/ (SweepPending /\ now < Horizon)
    /\ ~SweepReady
    /\ now' = now + 1
    /\ UNCHANGED <<sessions, session_last_activity, max_messages,
                   session_timeout, others, sweep_pc, wake_at, expired, torn,
                   appended, n_adds, ret>>

\* Mutant of AddedList: the message is inserted at the front of the list.
AddedListFront(old, msg, cap) ==
    LET lst == <<msg>> \o old
    IN  IF Len(lst) > cap THEN PyLast(lst, cap) ELSE lst

\* Mutant of AddedList: a list over the cap is emptied.
AddedListReset(old, msg, cap) ==
    LET lst == Append(old, msg)
    IN  IF Len(lst) > cap THEN <<>> ELSE lst

\* The list add_message leaves in the session table.
AddedList(old, msg, cap) ==
    LET lst == Append(old, msg)
    IN  IF Len(lst) > cap THEN PyLast(lst, cap) ELSE lst

\* Mutant of add_message: the last activity is recorded only when the
\* session is created.
add_message_stale(user_id, content, sender) ==
    LET session_id == get_session_id(user_id)
        old == IF session_id \in DOMAIN sessions THEN sessions[session_id] ELSE <<>>
        oldlog == IF session_id \in DOMAIN appended THEN appended[session_id] ELSE <<>>
        message == ConversationMessage(content, sender, now)
    IN  /\ ~torn
        /\ n_adds' = n_adds + 1
        /\ session_last_activity' =
               IF session_id \in DOMAIN session_last_activity
               THEN session_last_activity
               ELSE DictSet(session_last_activity, session_id, now)
        /\ sessions' = DictSet(sessions, session_id, AddedList(old, message, max_messages))
        /\ appended' = DictSet(appended, session_id, Append(oldlog, message))
        /\ ret' = [op |-> "add_message"]
        /\ UNCHANGED <<max_messages, session_timeout, now, sweep_pc, wake_at, expired, torn>>

\* Mutant of add_message: a session found idle for longer than the timeout
\* is started afresh.
add_message_expiring(user_id, content, sender) ==
    LET session_id == get_session_id(user_id)
        stale == /\ session_id \in DOMAIN session_last_activity
                 /\ now - session_last_activity[session_id] > session_timeout
        old == IF session_id \in DOMAIN sessions /\ ~stale
               THEN sessions[session_id] ELSE <<>>
        oldlog == IF session_id \in DOMAIN appended THEN appended[session_id] ELSE <<>>
        message == ConversationMessage(content, sender, now)
    IN  /\ ~torn
        /\ n_adds' = n_adds + 1
        /\ session_last_activity' = DictSet(session_last_activity, session_id, now)
        /\ sessions' = DictSet(sessions, session_id, AddedList(old, message, max_messages))
        /\ appended' = DictSet(appended, session_id, Append(oldlog, message))
        /\ ret' = [op |-> "add_message"]
        /\ UNCHANGED <<max_messages, session_timeout, now, sweep_pc, wake_at, expired, torn>>

\* Mutant of add_message: the method is suspended between its append and
\* its truncation, and finishes in a second step.
add_message_suspended(user_id, content, sender) ==
    LET session_id == get_session_id(user_id)
        old == IF session_id \in DOMAIN sessions THEN sessions[session_id] ELSE <<>>
        oldlog == IF session_id \in DOMAIN appended THEN appended[session_id] ELSE <<>>
        message == ConversationMessage(content, sender, now)
    IN  /\ ~torn
        /\ \/ /\ ret.op # "add_message_appended"
              /\ n_adds' = n_adds + 1
              /\ session_last_activity' = DictSet(session_last_activity, session_id, now)
              /\ sessions' = DictSet(sessions, session_id, Append(old, message))
              /\ appended' = DictSet(appended, session_id, Append(oldlog, message))
              /\ ret' = [op |-> "add_message_appended", sid |-> session_id]
           \/ /\ ret.op = "add_message_appended"
              /\ ret.sid = session_id
              /\ session_id \in DOMAIN sessions
              /\ sessions' = DictSet(sessions, session_id,
                                     IF Len(old) > max_messages
                                     THEN PyLast(old, max_messages) ELSE old)
              /\ ret' = [op |-> "add_message"]
              /\ UNCHANGED <<session_last_activity, appended, n_adds>>
        /\ UNCHANGED <<max_messages, session_timeout, now, sweep_pc, wake_at, expired, torn>>

\* SessionMemory.add_message.  The message timestamp and the last activity
\* are two consecutive clock reads; both fall in the same minute.
add_message(user_id, content, sender) ==
    LET session_id == get_session_id(user_id)
        old == IF session_id \in DOMAIN sessions THEN sessions[session_id] ELSE <<>>
        oldlog == IF session_id \in DOMAIN appended THEN appended[session_id] ELSE <<>>
        message == ConversationMessage(content, sender, now)
    IN  /\ ~torn
        /\ n_adds' = n_adds + 1
        /\ session_last_activity' = DictSet(session_last_activity, session_id, now)
        /\ sessions' = DictSet(sessions, session_id, AddedList(old, message, max_messages))
        /\ appended' = DictSet(appended, session_id, Append(oldlog, message))
        /\ ret' = [op |-> "add_message"]
        /\ UNCHANGED <<max_messages, session_timeout, now, sweep_pc, wake_at, expired, torn>>

\* A call of add_message arrives; calls arrive up to minute MaxTime, and
\* MaxAdds of them.
AddMessage ==
    \E u \in UserIds, c \in Contents, s \in Senders :
        /\ now <= MaxTime
        /\ n_adds < MaxAdds
        /\ add_message(u, c, s)
        /\ UNCHANGED others

\* Mutant of clear_session: the activity record is left behind.
clear_session_keep_activity(user_id) ==
    LET session_id == get_session_id(user_id)
    IN  /\ ~torn
        /\ IF session_id \in DOMAIN sessions
           THEN /\ sessions' = DictDel(sessions, session_id)
                /\ ret' = [op |-> "clear_session", val |-> TRUE]
           ELSE /\ UNCHANGED sessions
                /\ ret' = [op |-> "clear_session", val |-> FALSE]
        /\ appended' = DictDel(appended, session_id)
        /\ UNCHANGED <<session_last_activity, max_messages, session_timeout, others, now,
                       sweep_pc, wake_at, expired, torn, n_adds>>

\* Mutant of clear_session: both tables are emptied.
clear_session_all(user_id) ==
    LET session_id == get_session_id(user_id)
    IN  /\ ~torn
        /\ IF session_id \in DOMAIN sessions
           THEN /\ sessions' = EmptyDict
                /\ session_last_activity' = EmptyDict
                /\ appended' = EmptyDict
                /\ ret' = [op |-> "clear_session", val |-> TRUE]
           ELSE /\ UNCHANGED <<sessions, session_last_activity>>
                /\ appended' = DictDel(appended, session_id)
                /\ ret' = [op |-> "clear_session", val |-> FALSE]
        /\ UNCHANGED <<max_messages, session_timeout, others, now, sweep_pc, wake_at, expired,
                       torn, n_adds>>

\* SessionMemory.clear_session
clear_session(user_id) ==
    LET session_id == get_session_id(user_id)
    IN  /\ ~torn
        /\ IF session_id \in DOMAIN sessions
           THEN /\ sessions' = DictDel(sessions, session_id)
                /\ session_last_activity' = DictDel(session_last_activity, session_id)
                /\ ret' = [op |-> "clear_session", val |-> TRUE]
           ELSE /\ UNCHANGED <<sessions, session_last_activity>>
                /\ ret' = [op |-> "clear_session", val |-> FALSE]
        /\ appended' = DictDel(appended, session_id)
        /\ UNCHANGED <<max_messages, session_timeout, others, now, sweep_pc, wake_at, expired,
                       torn, n_adds>>

ClearSession == \E u \in UserIds : clear_session(u)

\* Mutant of expired_sessions: the operands of the subtraction are swapped.
expired_sessions_swapped(current_time) ==
    {session_id \in DOMAIN session_last_activity :
        session_last_activity[session_id] - current_time > session_timeout}

\* Mutant of expired_sessions: a session at the threshold expires too.
expired_sessions_inclusive(current_time) ==
    {session_id \in DOMAIN session_last_activity :
        current_time - session_last_activity[session_id] >= session_timeout}

\* The sessions one pass of _cleanup_expired_sessions collects at current_time.
expired_sessions(current_time) ==
    {session_id \in DOMAIN session_last_activity :
        current_time - session_last_activity[session_id] > session_timeout}

\* Mutant of SweepPass: the coroutine is suspended between the scan and the
\* deletions, which then work from the list the scan collected.
SweepPassSplit ==
    \/ /\ sweep_pc = "scan"
       /\ expired' = expired_sessions(now)
       /\ sweep_pc' = "delete"
       /\ UNCHANGED <<sessions, session_last_activity, max_messages, session_timeout, others,
                      now, wake_at, torn, appended, n_adds, ret>>
    \/ /\ sweep_pc = "delete"
       /\ sessions' = DictDelAll(sessions, expired)
       /\ session_last_activity' = DictDelAll(session_last_activity, expired)
       /\ appended' = DictDelAll(appended, expired)
       /\ sweep_pc' = "sleep"
       /\ wake_at' = now + SweepInterval
       /\ UNCHANGED <<max_messages, session_timeout, others, now, expired, torn, n_adds, ret>>

\* Mutant of SweepPass: the expired sessions are deleted from the session
\* table only.
SweepPassSessionsOnly ==
    /\ sweep_pc = "scan"
    /\ expired' = expired_sessions(now)
    /\ sessions' = DictDelAll(sessions, expired')
    /\ appended' = DictDelAll(appended, expired')
    /\ sweep_pc' = "sleep"
    /\ wake_at' = now + SweepInterval
    /\ UNCHANGED <<session_last_activity, max_messages, session_timeout, others,
                   now, torn, n_adds, ret>>

\* One pass of the loop body of _cleanup_expired_sessions, up to its sleep:
\* there is no await between the scan and the deletions.
SweepPass ==
    /\ sweep_pc = "scan"
    /\ expired' = expired_sessions(now)
    /\ sessions' = DictDelAll(sessions, expired')
    /\ session_last_activity' = DictDelAll(session_last_activity, expired')
    /\ appended' = DictDelAll(appended, expired')
    /\ sweep_pc' = "sleep"
    /\ wake_at' = now + SweepInterval
    /\ UNCHANGED <<max_messages, session_timeout, others, now, torn, n_adds, ret>>

\* Mutant of SweepFail: no handler, the error ends the coroutine.
SweepFailPropagates ==
    /\ sweep_pc = "scan"
    /\ expired_sessions(now) # {}
    /\ expired' = expired_sessions(now)
    /\ sessions' = DictDelAll(sessions, expired')
    /\ session_last_activity' = DictDelAll(session_last_activity, expired')
    /\ appended' = DictDelAll(appended, expired')
    /\ sweep_pc' = "crashed"
    /\ UNCHANGED <<max_messages, session_timeout, others, now, wake_at, torn, n_adds, ret>>

\* A pass that ends in the except branch.  The one statement of the try body
\* that can raise is the print after the deletions, reached when the pass
\* removed something; the handler reports the error and sleeps 60 seconds.
SweepFail ==
    /\ sweep_pc = "scan"
    /\ expired_sessions(now) # {}
    /\ expired' = expired_sessions(now)
    /\ sessions' = DictDelAll(sessions, expired')
    /\ session_last_activity' = DictDelAll(session_last_activity, expired')
    /\ appended' = DictDelAll(appended, expired')
    /\ sweep_pc' = "backoff"
    /\ wake_at' = now + ErrorBackoff
    /\ UNCHANGED <<max_messages, session_timeout, others, now, torn, n_adds, ret>>

\* Mutant of SweepWake: the body is not in a loop, the coroutine returns
\* after its first sleep.
SweepWakeReturns ==
    /\ sweep_pc = "sleep"
    /\ now >= wake_at
    /\ sweep_pc' = "done"
    /\ UNCHANGED <<sessions, session_last_activity, max_messages, session_timeout, others,
                   now, wake_at, expired, torn, appended, n_adds, ret>>

\* asyncio.sleep(300) returns once the interval has passed.
SweepWake ==
    /\ sweep_pc = "sleep"
    /\ now >= wake_at
    /\ sweep_pc' = "scan"
    /\ UNCHANGED <<sessions, session_last_activity, max_messages, session_timeout, others,
                   now, wake_at, expired, torn, appended, n_adds, ret>>

\* asyncio.sleep(60) of the except branch returns; the loop starts over.
SweepRetry ==
    /\ sweep_pc = "backoff"
    /\ now >= wake_at
    /\ sweep_pc' = "scan"
    /\ UNCHANGED <<sessions, session_last_activity, max_messages, session_timeout, others,
                   now, wake_at, expired, torn, appended, n_adds, ret>>

\* Mutant of Teardown: the task is left running.
TeardownNoCancel ==
    /\ ~torn
    /\ torn' = TRUE
    /\ UNCHANGED <<sessions, session_last_activity, max_messages, session_timeout, others,
                   now, sweep_pc, wake_at, expired, appended, n_adds, ret>>

\* SessionMemory.__del__: the cleanup task is cancelled.  The coroutine is
\* suspended (or not yet started) whenever other code runs, so the
\* cancellation ends it before it executes another statement.
Teardown ==
    /\ ~torn
    /\ torn' = TRUE
    /\ sweep_pc' = "cancelled"
    /\ UNCHANGED <<sessions, session_last_activity, max_messages, session_timeout, others,
                   now, wake_at, expired, appended, n_adds, ret>>

\* What a read leaves alone: everything but the returned value.
ReadFrame ==
    UNCHANGED <<sessions, session_last_activity, max_messages, session_timeout, others,
                now, sweep_pc, wake_at, expired, torn, appended, n_adds>>

\* Mutant of read_history: the session is looked up with setdefault, which
\* creates an empty one for an unknown user.
read_history_creating(user_id, last_n_messages) ==
    LET session_id == get_session_id(user_id)
    IN  /\ ~torn
        /\ sessions' = IF session_id \in DOMAIN sessions THEN sessions
                       ELSE DictSet(sessions, session_id, <<>>)
        /\ ret' = [op |-> "get_conversation_history", user |-> user_id,
                   val |-> get_conversation_history(sessions', user_id, last_n_messages)]
        /\ UNCHANGED <<session_last_activity, max_messages, session_timeout, others,
                       now, sweep_pc, wake_at, expired, torn, appended, n_adds>>

\* A call of get_conversation_history.
read_history(user_id, last_n_messages) ==
    /\ ~torn
    /\ ret' = [op |-> "get_conversation_history", user |-> user_id,
               val |-> get_conversation_history(sessions, user_id, last_n_messages)]
    /\ ReadFrame

GetConversationHistory == \E u \in UserIds, k \in LastNArgs : read_history(u, k)

\* A call of get_last_user_message.
GetLastUserMessage ==
    \E u \in UserIds :
        /\ ~torn
        /\ ret' = [op |-> "get_last_user_message", user |-> u,
                   val |-> get_last_user_message(sessions, u)]
        /\ ReadFrame

\* A call of get_last_bot_message.
GetLastBotMessage ==
    \E u \in UserIds :
        /\ ~torn
        /\ ret' = [op |-> "get_last_bot_message", user |-> u,
                   val |-> get_last_bot_message(sessions, u)]
        /\ ReadFrame

\* A call of get_conversation_context.
GetConversationContext ==
    \E u \in UserIds, n \in 0..MaxK :
        /\ ~torn
        /\ ret' = [op |-> "get_conversation_context", user |-> u,
                   val |-> get_conversation_context(sessions, u, n)]
        /\ ReadFrame

\* A call of get_session_stats.
GetSessionStats ==
    /\ ~torn
    /\ ret' = [op |-> "get_session_stats", user |-> "",
               val |-> get_session_stats(sessions)]
    /\ ReadFrame

Reads ==
    \/ GetConversationHistory \/ GetLastUserMessage \/ GetLastBotMessage
    \/ GetConversationContext \/ GetSessionStats

Next ==
    \/ Tick \/ AddMessage \/ ClearSession
    \/ SweepPass \/ SweepFail \/ SweepWake \/ SweepRetry \/ Teardown

Spec == Init /\ [][Next]_vars

\* A store constructed with a timeout shorter than the interval of the
\* cleanup coroutine.
InitShort ==
    /\ sessions = EmptyDict
    /\ session_last_activity = EmptyDict
    /\ \E c \in 0..MaxCap : max_messages = MaxCap - c
    /\ session_timeout = ShortTimeout
    /\ now = 0
    /\ sweep_pc = "scan"
    /\ wake_at = 0
    /\ expired = {}
    /\ torn = FALSE
    /\ appended = EmptyDict
    /\ n_adds = 0
    /\ ret = NoRet
    /\ requests = NoRequests
    /\ conversations = EmptyDict
    /\ session_contexts = EmptyDict
    /\ max_history_length = DefaultHistoryLength

SpecShort == InitShort /\ [][Next]_vars

\* The store with its read operations called as well.
NextReads == Next \/ Reads

SpecReads == Init /\ [][NextReads]_vars

\* Arguments add_message does not expect: an empty user id, a sender that
\* is neither 'user' nor 'bot'.
InvalidUserIds == {""}

InvalidSenders == {"system"}

\* A call of add_message with an empty user id or an unknown sender.  The
\* method has no check of its arguments, it runs as for any other call.
AddMessageInvalid ==
    \E u \in UserIds \cup InvalidUserIds, c \in Contents,
       s \in Senders \cup InvalidSenders :
        /\ u \in InvalidUserIds \/ s \in InvalidSenders
        /\ now <= MaxTime
        /\ n_adds < MaxAdds
        /\ add_message(u, c, s)
        /\ UNCHANGED others

NextInvalid == Next \/ AddMessageInvalid

SpecInvalid == Init /\ [][NextInvalid]_vars

\* The event loop runs a ready coroutine, and the clock does not stop.
Fairness ==
    /\ WF_vars(Tick)
    /\ WF_vars(SweepPass)
    /\ WF_vars(SweepWake)
    /\ WF_vars(SweepRetry)

LiveSpec == Spec /\ Fairness

\* ------------------------------------- PureAIAgent.process_message calls
\* user_id of process_message: a user, or "" for an id that is empty or
\* None; both take the same branch of `if user_id:`.
AgentUserIds == UserIds \cup {""}

\* What the intent analyzer, the language model, can answer: an action and
\* parameters, which may or may not carry a "user_id" of their own ("" when
\* they carry none).  general_help runs without waiting, check_order waits
\* for the shop API, remember_context reads the store.
AgentActions == {"general_help", "check_order", "remember_context"}

Responses == {"r1", "r2"}

ErrorResponse == "Something went wrong on my end."

\* The store as the agent finds it: the process-wide SessionMemory() with
\* its default configuration, before any call.
InitAgent ==
    /\ sessions = EmptyDict
    /\ session_last_activity = EmptyDict
    /\ max_messages = DefaultMaxMessages
    /\ session_timeout = DefaultTimeoutMinutes
    /\ now = 0
    /\ sweep_pc = "scan"
    /\ wake_at = 0
    /\ expired = {}
    /\ torn = FALSE
    /\ appended = EmptyDict
    /\ n_adds = 0
    /\ ret = NoRet
    /\ requests = NoRequests
    /\ conversations = EmptyDict
    /\ session_contexts = EmptyDict
    /\ max_history_length = DefaultHistoryLength

\* The calls of process_message that wait at one of their awaits: for the
\* intent analyzer, the shop API, the response generator or the error
\* handler's model call.
Suspended == {q \in ReqIds : requests[q].pc \notin {"idle", "done"}}

\* What a step of process_message leaves alone when it does not call
\* add_message.
NoAppend ==
    UNCHANGED <<sessions, session_last_activity, max_messages, session_timeout,
                now, sweep_pc, wake_at, expired, torn, appended, n_adds, ret>>

\* The entry a call keeps of an append it made: sender, content and the
\* position the message took in the session.
AppendEntry(user_id, content, sender) ==
    [sender |-> sender, content |-> content,
     pos |-> Len(appended'[get_session_id(user_id)])]

\* Mutant of process_message_start: the context is read before the
\* incoming message is appended.
process_message_start_context_first(r, message, user_id) ==
    /\ requests[r].pc = "idle"
    /\ IF r = 1 THEN TRUE ELSE requests[r - 1].pc # "idle"
    /\ IF user_id # ""
       THEN /\ add_message(user_id, message, "user")
            /\ requests' = [requests EXCEPT ![r] =
                  [pc |-> "intent", user |-> user_id, message |-> message,
                   context |-> get_conversation_context(sessions, user_id,
                                                        DefaultContextLength),
                   appends |-> <<AppendEntry(user_id, message, "user")>>,
                   action |-> "", mem_reads |-> {}, response |-> "",
                   in_flight |-> Suspended]]
       ELSE /\ NoAppend
            /\ requests' = [requests EXCEPT ![r] =
                  [pc |-> "intent", user |-> user_id, message |-> message,
                   context |-> StartSentinel, appends |-> <<>>,
                   action |-> "", mem_reads |-> {}, response |-> "",
                   in_flight |-> Suspended]]
    /\ UNCHANGED <<conversations, session_contexts, max_history_length>>

\* process_message up to its first await: the incoming message is appended
\* and the context is read, both only for a user_id that is not empty; the
\* call then waits for the intent analyzer.
process_message_start(r, message, user_id) ==
    /\ requests[r].pc = "idle"
    /\ IF r = 1 THEN TRUE ELSE requests[r - 1].pc # "idle"
    /\ IF user_id # ""
       THEN /\ add_message(user_id, message, "user")
            /\ requests' = [requests EXCEPT ![r] =
                  [pc |-> "intent", user |-> user_id, message |-> message,
                   context |-> get_conversation_context(sessions', user_id,
                                                        DefaultContextLength),
                   appends |-> <<AppendEntry(user_id, message, "user")>>,
                   action |-> "", mem_reads |-> {}, response |-> "",
                   in_flight |-> Suspended]]
       ELSE /\ NoAppend
            /\ requests' = [requests EXCEPT ![r] =
                  [pc |-> "intent", user |-> user_id, message |-> message,
                   context |-> StartSentinel, appends |-> <<>>,
                   action |-> "", mem_reads |-> {}, response |-> "",
                   in_flight |-> Suspended]]
    /\ UNCHANGED <<conversations, session_contexts, max_history_length>>

ProcessMessageStart ==
    \E r \in ReqIds, m \in Contents, u \in AgentUserIds :
        process_message_start(r, m, u)

\* The user id _execute_action works with: the caller's when it is not
\* empty, otherwise whatever "user_id" the intent parameters carry.
action_user_id(req, param_user) ==
    IF req.user # "" THEN req.user ELSE param_user

\* The intent analyzer answers.  process_message goes on to
\* _execute_action: remember_context reads the store for the action's user
\* id, without waiting, and general_help does not wait either, so both
\* arrive at the response generator; check_order waits for the shop API.
intent_returns(r, action, param_user) ==
    LET req == requests[r]
        user_id == action_user_id(req, param_user)
    IN  /\ req.pc = "intent"
        /\ requests' = [requests EXCEPT ![r] =
              [req EXCEPT
                 !.pc = IF action = "check_order" THEN "action" ELSE "respond",
                 !.action = action,
                 !.mem_reads = IF action = "remember_context" /\ user_id # ""
                               THEN {user_id} ELSE {}]]
        /\ NoAppend
        /\ UNCHANGED <<conversations, session_contexts, max_history_length>>

IntentReturns ==
    \E r \in ReqIds, a \in AgentActions, pu \in AgentUserIds :
        intent_returns(r, a, pu)

\* The intent analyzer raises: process_message leaves its try body for
\* _handle_error_intelligently, which waits for the language model.
IntentFails ==
    \E r \in ReqIds :
        /\ requests[r].pc = "intent"
        /\ requests' = [requests EXCEPT ![r].pc = "error"]
        /\ NoAppend
        /\ UNCHANGED <<conversations, session_contexts, max_history_length>>

\* The shop API answers or fails; _execute_action catches the failure and
\* returns a result either way, and the response generator is called.
ActionReturns ==
    \E r \in ReqIds :
        /\ requests[r].pc = "action"
        /\ requests' = [requests EXCEPT ![r].pc = "respond"]
        /\ NoAppend
        /\ UNCHANGED <<conversations, session_contexts, max_history_length>>

\* _generate_natural_response returns a text, the model's or its own
\* fallback; process_message appends it for a user_id that is not empty and
\* returns it.
response_returns(r, text) ==
    LET req == requests[r]
    IN  /\ req.pc = "respond"
        /\ IF req.user # ""
           THEN /\ add_message(req.user, text, "bot")
                /\ requests' = [requests EXCEPT ![r] =
                      [req EXCEPT !.pc = "done", !.response = text,
                                  !.appends = Append(req.appends,
                                      AppendEntry(req.user, text, "bot"))]]
           ELSE /\ NoAppend
                /\ requests' = [requests EXCEPT ![r] =
                      [req EXCEPT !.pc = "done", !.response = text]]
        /\ UNCHANGED <<conversations, session_contexts, max_history_length>>

ResponseReturns == \E r \in ReqIds, t \in Responses : response_returns(r, t)

\* _handle_error_intelligently returns its response, which process_message
\* returns as it is.
ErrorReturns ==
    \E r \in ReqIds :
        /\ requests[r].pc = "error"
        /\ requests' = [requests EXCEPT ![r] =
              [requests[r] EXCEPT !.pc = "done", !.action = "error_handling",
                                  !.response = ErrorResponse]]
        /\ NoAppend
        /\ UNCHANGED <<conversations, session_contexts, max_history_length>>

NextAgent ==
    \/ ProcessMessageStart
    \/ IntentReturns
    \/ IntentFails
    \/ ActionReturns
    \/ ResponseReturns
    \/ ErrorReturns
    \/ ClearSession

SpecAgent == InitAgent /\ [][NextAgent]_vars

(***************************************************************************)
(* ConversationMemoryManager (src/core/memory_manager.py): turns per       *)
(* session in conversations, a context dictionary per session in           *)
(* session_contexts.  Its clock is now, counted in hours here, its         *)
(* session_timeout is held in the variable of that name, and appended,     *)
(* n_adds and ret record the turns added to a session since it was last    *)
(* removed, their number, and the method called last.                      *)
(***************************************************************************)
ManagerSessionIds == {"s1", "s2"}

\* The dictionaries update_session_context is called with.
ContextUpdates == {EmptyDict, [k \in {"topic"} |-> "x"]}

\* datetime.fromisoformat, on the strings isoformat produces.
fromisoformat(str) == CHOOSE t \in 0..(MaxTime + 1) : isoformat(t) = str

\* ConversationTurn; tools_used, confidence and context are stored with the
\* turn and never looked at by the manager.
ConversationTurn(user_message, bot_response, t) ==
    [timestamp |-> isoformat(t), user_message |-> user_message,
     bot_response |-> bot_response]

\* dict.update
DictUpdate(d, u) ==
    [k \in (DOMAIN d) \cup (DOMAIN u) |-> IF k \in DOMAIN u THEN u[k] ELSE d[k]]

\* ConversationMemoryManager(max_history_length, session_timeout_hours)
InitMM ==
    /\ sessions = EmptyDict
    /\ session_last_activity = EmptyDict
    /\ max_messages = DefaultMaxMessages
    /\ session_timeout = TimeoutHours
    /\ now = 0
    /\ sweep_pc = "scan"
    /\ wake_at = 0
    /\ expired = {}
    /\ torn = FALSE
    /\ appended = EmptyDict
    /\ n_adds = 0
    /\ ret = NoRet
    /\ requests = NoRequests
    /\ conversations = EmptyDict
    /\ session_contexts = EmptyDict
    /\ max_history_length \in 0..MaxCap

\* What no method of the manager touches.
ManagerFrame ==
    UNCHANGED <<sessions, session_last_activity, max_messages, session_timeout,
                sweep_pc, wake_at, expired, torn, requests, max_history_length>>

\* history[-n:] as Python computes it for n >= 0: the whole list for n = 0.
LastSlice(lst, n) ==
    IF n = 0 THEN lst ELSE SubSeq(lst, Len(lst) - Min(n, Len(lst)) + 1, Len(lst))

add_conversation_turn(session_id, user_message, bot_response) ==
    LET old == IF session_id \in DOMAIN conversations
               THEN conversations[session_id] ELSE <<>>
        oldlog == IF session_id \in DOMAIN appended THEN appended[session_id] ELSE <<>>
        turn == ConversationTurn(user_message, bot_response, now)
        grown == Append(old, turn)
    IN  /\ conversations' = DictSet(conversations, session_id,
              IF Len(grown) > max_history_length
              THEN LastSlice(grown, max_history_length) ELSE grown)
        /\ appended' = DictSet(appended, session_id, Append(oldlog, turn))
        /\ n_adds' = n_adds + 1
        /\ ret' = [op |-> "add_conversation_turn"]
        /\ UNCHANGED <<session_contexts, now>>
        /\ ManagerFrame

AddConversationTurn ==
    \E sid \in ManagerSessionIds, m \in Contents, b \in Responses :
        /\ n_adds < MaxTurns
        /\ add_conversation_turn(sid, m, b)

update_session_context(session_id, context_updates) ==
    LET old == IF session_id \in DOMAIN session_contexts
               THEN session_contexts[session_id] ELSE EmptyDict
    IN  /\ session_contexts' = DictSet(session_contexts, session_id,
                                       DictUpdate(old, context_updates))
        /\ ret' = [op |-> "update_session_context"]
        /\ UNCHANGED <<conversations, appended, n_adds, now>>
        /\ ManagerFrame

UpdateSessionContext ==
    \E sid \in ManagerSessionIds, u \in ContextUpdates :
        update_session_context(sid, u)

\* ConversationMemoryManager.clear_session, for a set of sessions (one
\* session when called from outside, sessions_to_remove inside
\* cleanup_old_sessions).
manager_clear_sessions(ids) ==
    /\ conversations' = DictDelAll(conversations, ids)
    /\ session_contexts' = DictDelAll(session_contexts, ids)
    /\ appended' = DictDelAll(appended, ids)

ManagerClearSession ==
    \E sid \in ManagerSessionIds :
        /\ manager_clear_sessions({sid})
        /\ ret' = [op |-> "clear_session", sid |-> sid]
        /\ UNCHANGED <<n_adds, now>>
        /\ ManagerFrame

\* sessions_to_remove of cleanup_old_sessions
sessions_to_remove ==
    LET cutoff == now - session_timeout
    IN  {sid \in DOMAIN conversations :
            LET turns == conversations[sid]
            IN  /\ turns # <<>>
                /\ fromisoformat(turns[Len(turns)].timestamp) < cutoff}

cleanup_old_sessions ==
    /\ manager_clear_sessions(sessions_to_remove)
    /\ ret' = [op |-> "cleanup_old_sessions"]
    /\ UNCHANGED <<n_adds, now>>
    /\ ManagerFrame

\* An hour passes.
ManagerTick ==
    /\ now < MaxTime
    /\ now' = now + 1
    /\ UNCHANGED <<conversations, session_contexts, appended, n_adds, ret>>
    /\ ManagerFrame

NextMM ==
    \/ AddConversationTurn
    \/ UpdateSessionContext
    \/ ManagerClearSession
    \/ cleanup_old_sessions
    \/ ManagerTick

SpecMM == InitMM /\ [][NextMM]_vars

\* ================================================================== claims
\* A step of the cleanup coroutine that runs one pass.
SweepStep == sweep_pc = "scan" /\ sweep_pc' = "sleep"

\* A pass has just completed at the current instant.
JustSwept == sweep_pc = "sleep" /\ wake_at = now + SweepInterval

\* The last Min(k, Len(lst)) elements of lst, in order.
LastMin(lst, k) == SubSeq(lst, Len(lst) - Min(k, Len(lst)) + 1, Len(lst))

\* C1: in every reachable state every session's message list is no longer
\* than max_messages, whatever max_messages was configured.
C1_LengthWithinCap ==
    \A sid \in DOMAIN sessions : Len(sessions[sid]) <= max_messages

\* C2: after N consecutive appends to a session (no clear or expiry in
\* between) it holds exactly the Min(N, max_messages) most recently appended
\* messages, in their original order.
C2_RetainsMostRecent ==
    \A sid \in DOMAIN sessions :
        /\ sid \in DOMAIN appended
        /\ Len(sessions[sid]) = Min(Len(appended[sid]), max_messages)
        /\ sessions[sid] = LastMin(appended[sid], max_messages)

\* C3: a sweep pass removes every session idle for longer than
\* session_timeout (message list and activity record) and leaves every
\* session idle for less than session_timeout with its message list and its
\* last activity unchanged.
C3_SweepRemovesOlderKeepsYounger ==
    [][SweepStep =>
        \A sid \in DOMAIN session_last_activity :
            /\ now - session_last_activity[sid] > session_timeout
                  => /\ sid \notin DOMAIN sessions'
                     /\ sid \notin DOMAIN session_last_activity'
            /\ now - session_last_activity[sid] < session_timeout
                  => /\ sid \in DOMAIN sessions'
                     /\ sid \in DOMAIN session_last_activity'
                     /\ sid \in DOMAIN sessions => sessions'[sid] = sessions[sid]
                     /\ session_last_activity'[sid] = session_last_activity[sid]
    ]_vars

\* C3 witness: a pass has just removed a session and kept a younger one.
C3_Witness ==
    /\ JustSwept
    /\ expired # {}
    /\ expired \cap DOMAIN sessions = {}
    /\ \E sid \in DOMAIN sessions :
          /\ session_last_activity[sid] < now
          /\ now - session_last_activity[sid] < session_timeout

\* C4 (as claimed): a session idle for exactly session_timeout at the time
\* of a sweep pass is removed by that pass.
C4_ThresholdRemoved ==
    [][SweepStep =>
        \A sid \in DOMAIN session_last_activity :
            now - session_last_activity[sid] = session_timeout
                => /\ sid \notin DOMAIN sessions'
                   /\ sid \notin DOMAIN session_last_activity'
    ]_vars

\* C4 (amended): a session idle for exactly session_timeout at the time of a
\* sweep pass is kept by that pass, messages and last activity unchanged;
\* only a session idle for strictly longer is removed.
C4_ThresholdKept ==
    [][SweepStep =>
        \A sid \in DOMAIN session_last_activity :
            /\ now - session_last_activity[sid] = session_timeout
                  => /\ sid \in DOMAIN session_last_activity'
                     /\ session_last_activity'[sid] = session_last_activity[sid]
                     /\ sid \in DOMAIN sessions
                           => sid \in DOMAIN sessions' /\ sessions'[sid] = sessions[sid]
            /\ sid \notin DOMAIN session_last_activity'
                  => now - session_last_activity[sid] > session_timeout
    ]_vars

\* C4 witness: a pass has just run over a session idle for exactly the
\* timeout, and the session is still there.
C4_Witness ==
    /\ JustSwept
    /\ \E sid \in DOMAIN sessions :
          /\ sid \in DOMAIN session_last_activity
          /\ now - session_last_activity[sid] = session_timeout

\* C5: distinct user ids have distinct sessions, and add_message for one
\* user leaves every other session's message list, length and last activity
\* unchanged.
C5_Isolation ==
    [][/\ \A a, b \in UserIds : a # b => get_session_id(a) # get_session_id(b)
       /\ \A u \in UserIds :
            (\E c \in Contents, s \in Senders : add_message(u, c, s))
            => \A v \in UserIds \ {u} :
                 LET sid == get_session_id(v)
                 IN  /\ (sid \in DOMAIN sessions) = (sid \in DOMAIN sessions')
                     /\ (sid \in DOMAIN session_last_activity)
                           = (sid \in DOMAIN session_last_activity')
                     /\ sid \in DOMAIN sessions
                           => /\ sessions'[sid] = sessions[sid]
                              /\ Len(sessions'[sid]) = Len(sessions[sid])
                     /\ sid \in DOMAIN session_last_activity
                           => session_last_activity'[sid] = session_last_activity[sid]
    ]_vars

\* C5 witness: two users hold sessions with different contents, the later
\* message appended after the other session's last activity.
C5_Witness ==
    /\ ret.op = "add_message"
    /\ \E a, b \in UserIds :
          /\ a # b
          /\ get_session_id(a) \in DOMAIN sessions
          /\ get_session_id(b) \in DOMAIN sessions
          /\ sessions[get_session_id(a)] # sessions[get_session_id(b)]
          /\ session_last_activity[get_session_id(a)]
                < session_last_activity[get_session_id(b)]

\* C6: clear_session on a user without a session returns false and changes
\* nothing in the store; on a user with a session it returns true and removes
\* the message list and the activity record, after which the history of that
\* user is empty and a further clear_session finds no session (returns false).
C6_ClearIdempotent ==
    [][\A u \in UserIds :
         clear_session(u) =>
           LET sid == get_session_id(u)
           IN  IF sid \in DOMAIN sessions
               THEN /\ ret' = [op |-> "clear_session", val |-> TRUE]
                    /\ sid \notin DOMAIN sessions'
                    /\ sid \notin DOMAIN session_last_activity'
                    /\ get_conversation_history(sessions', u, None) = <<>>
                    /\ \A k \in 0..MaxK :
                          get_conversation_history(sessions', u, Some(k)) = <<>>
               ELSE /\ ret' = [op |-> "clear_session", val |-> FALSE]
                    /\ sessions' = sessions
                    /\ session_last_activity' = session_last_activity
    ]_vars

\* C6 witness: a second clear_session of a user returned false after the
\* first removed that user's only session.
C6_Witness ==
    /\ ret = [op |-> "clear_session", val |-> FALSE]
    /\ n_adds > 0
    /\ sessions = EmptyDict
    /\ session_last_activity = EmptyDict
    /\ expired = {}

\* The history records of a message list.
Records(lst) == [i \in 1..Len(lst) |-> to_dict(lst[i])]

\* C7: get_conversation_history(user, k) returns exactly the last
\* Min(k, len) retained messages in order, for every k >= 0 including 0, and
\* the whole retained history when k is not given.
C7_LastNSlicing ==
    \A u \in UserIds :
        LET sid == get_session_id(u)
        IN  sid \in DOMAIN sessions =>
              /\ get_conversation_history(sessions, u, None) = Records(sessions[sid])
              /\ \A k \in 0..MaxK :
                    get_conversation_history(sessions, u, Some(k))
                       = Records(LastMin(sessions[sid], k))

\* The content of the last message of lst sent by role, if any.
LastOfRole(lst, role) ==
    LET idx == {i \in 1..Len(lst) : lst[i].sender = role}
    IN  IF idx = {} THEN None
        ELSE Some(lst[CHOOSE i \in idx : \A j \in idx : j <= i].content)

\* C8: get_last_user_message / get_last_bot_message return the content of the
\* most recently appended retained message of that role, and nothing when the
\* session retains no message of that role.
C8_RoleLookup ==
    \A u \in UserIds :
        LET sid == get_session_id(u)
        IN  sid \in DOMAIN sessions =>
              /\ get_last_user_message(sessions, u) = LastOfRole(sessions[sid], "user")
              /\ get_last_bot_message(sessions, u) = LastOfRole(sessions[sid], "bot")

\* C8 witness: a session retains two user messages of different content and
\* no bot message.
C8_Witness ==
    \E sid \in DOMAIN sessions :
        /\ Len(sessions[sid]) = 2
        /\ sessions[sid][1].sender = "user"
        /\ sessions[sid][2].sender = "user"
        /\ sessions[sid][1].content # sessions[sid][2].content

\* The transcript the claim describes for a list of included messages.
RECURSIVE Transcript(_)
Transcript(lst) ==
    IF lst = <<>> THEN ""
    ELSE LET m == lst[Len(lst)]
             line == IF m.sender = "user" THEN "Customer: " \o m.content
                     ELSE "Assistant: " \o m.content
             front == SubSeq(lst, 1, Len(lst) - 1)
         IN  IF front = <<>> THEN line ELSE Transcript(front) \o "\n" \o line

\* C9: on a non-empty session get_conversation_context(user, n) is one line
\* per included message, the included messages being the last n retained
\* ones (all if fewer), in order, labelled Customer / Assistant; on a session
\* without messages it is the start-of-conversation sentinel.
C9_ContextFormatting ==
    \A u \in UserIds : \A n \in 0..MaxK :
        LET sid == get_session_id(u)
        IN  IF sid \in DOMAIN sessions /\ sessions[sid] # <<>>
            THEN get_conversation_context(sessions, u, n)
                    = Transcript(LastMin(sessions[sid], n))
            ELSE get_conversation_context(sessions, u, n)
                    = "This is the start of the conversation."

\* C10: for a user without a session every read returns its empty value:
\* the history is empty, the last user and bot messages are absent and the
\* context is the sentinel; also right after a clear or a sweep.
C10_ReadsOfUnknownUser ==
    \A u \in UserIds :
        get_session_id(u) \notin DOMAIN sessions =>
            /\ get_conversation_history(sessions, u, None) = <<>>
            /\ \A k \in 0..MaxK : get_conversation_history(sessions, u, Some(k)) = <<>>
            /\ get_last_user_message(sessions, u) = None
            /\ get_last_bot_message(sessions, u) = None
            /\ \A n \in 0..MaxK :
                  get_conversation_context(sessions, u, n)
                     = "This is the start of the conversation."

\* C10 witness: a sweep has just removed one user's session while another
\* user's session is live.
C10_Witness ==
    /\ JustSwept
    /\ \E u \in UserIds :
          /\ get_session_id(u) \in expired
          /\ get_session_id(u) \notin DOMAIN sessions
    /\ sessions # EmptyDict

\* Every (session, position) pair of a retained message.
MessageSlots ==
    UNION {{<<sid, i>> : i \in 1..Len(sessions[sid])} : sid \in DOMAIN sessions}

\* C11: get_session_stats reports as total_messages the number of messages
\* retained over all live sessions, as total_sessions the number of live
\* session keys, as active_sessions exactly those keys, and an average of 0
\* when there is no session.
C11_StatsConsistent ==
    LET stats == get_session_stats(sessions)
    IN  /\ stats.total_messages = Cardinality(MessageSlots)
        /\ stats.total_sessions = Cardinality(DOMAIN sessions)
        /\ stats.active_sessions = DOMAIN sessions
        /\ stats.total_sessions = 0
              => stats.avg_messages_per_session = [num |-> 0, den |-> 1]

\* C11 witness: after a clear, one live session holds two messages.
C11_Witness ==
    /\ ret.op = "clear_session"
    /\ Cardinality(DOMAIN sessions) = 1
    /\ Cardinality(MessageSlots) = 2

\* The operations that only read.
ReadOps ==
    {"get_conversation_history", "get_last_user_message", "get_last_bot_message",
     "get_conversation_context", "get_session_stats"}

\* A step taken by a read: it returns from a read operation, and it is none
\* of the clock, an append, the cleanup coroutine or the teardown.
ReadStep ==
    /\ ret'.op \in ReadOps
    /\ now' = now
    /\ n_adds' = n_adds
    /\ sweep_pc' = sweep_pc
    /\ torn' = torn

\* A step of add_message for user_id.
AddStepOf(user_id) == \E c \in Contents, s \in Senders : add_message(user_id, c, s)

\* C12: every add_message for a user sets the last activity of that user's
\* session to the current time, and the last activity of a session that
\* exists before and after a step changes only in a step of add_message for
\* its user: reads, get_session_stats, clear_session of another user and
\* passes that keep the session leave it as it is.
C12_ActivityOnlyByAdd ==
    [][ /\ \A u \in UserIds :
              AddStepOf(u) =>
                  /\ get_session_id(u) \in DOMAIN session_last_activity'
                  /\ session_last_activity'[get_session_id(u)] = now'
        /\ \A sid \in DOMAIN session_last_activity \cap DOMAIN session_last_activity' :
              session_last_activity'[sid] # session_last_activity[sid] =>
                  \E u \in UserIds : sid = get_session_id(u) /\ AddStepOf(u)
      ]_vars

\* C12 witness: get_session_stats returned while a session holds two
\* messages recorded at different minutes, its last activity being the
\* minute of the second one and already in the past.
C12_Witness ==
    /\ ret.op = "get_session_stats"
    /\ \E sid \in DOMAIN sessions :
          /\ Len(sessions[sid]) = 2
          /\ sessions[sid][1].timestamp < sessions[sid][2].timestamp
          /\ session_last_activity[sid] = sessions[sid][2].timestamp
          /\ session_last_activity[sid] < now

C14_ReadsChangeNothing ==
    [][ReadStep => /\ sessions' = sessions
                   /\ session_last_activity' = session_last_activity]_vars

\* C14 witness: a read for a user without a session has returned while
\* another user holds a session, and the unknown user still has none.
C14_Witness ==
    /\ ret.op \in ReadOps \ {"get_session_stats"}
    /\ get_session_id(ret.user) \notin DOMAIN sessions
    /\ get_session_id(ret.user) \notin DOMAIN session_last_activity
    /\ sessions # EmptyDict

\* lst is what is left of full after dropping messages from its front.
IsSuffix(lst, full) ==
    /\ Len(lst) <= Len(full)
    /\ lst = SubSeq(full, Len(full) - Len(lst) + 1, Len(full))

\* C15: a session appears only in a step of add_message for its user; the
\* message list of a session that stays changes only in a step of
\* add_message for its user, to the old list with the new message appended
\* and messages dropped from the front; a session disappears only in a step
\* of clear_session for its user, which removes no other session, or in a
\* pass of the cleanup coroutine that finds now - last activity >
\* session_timeout.
C15_Lifecycle ==
    [][ \A u \in UserIds :
          LET sid == get_session_id(u)
          IN  /\ (sid \notin DOMAIN sessions /\ sid \in DOMAIN sessions')
                    => AddStepOf(u)
              /\ (/\ sid \in DOMAIN sessions
                  /\ sid \in DOMAIN sessions'
                  /\ sessions'[sid] # sessions[sid])
                    => \E c \in Contents, s \in Senders :
                          /\ add_message(u, c, s)
                          /\ IsSuffix(sessions'[sid],
                                      Append(sessions[sid], ConversationMessage(c, s, now)))
              /\ (sid \in DOMAIN sessions /\ sid \notin DOMAIN sessions')
                    => \/ /\ clear_session(u)
                          /\ DOMAIN sessions' = DOMAIN sessions \ {sid}
                       \/ /\ SweepPass \/ SweepFail
                          /\ now - session_last_activity[sid] > session_timeout
      ]_vars

\* C15 witness: both sessions are gone, one removed by a pass of the cleanup
\* coroutine and the other by clear_session afterwards.
C15_Witness ==
    /\ ret = [op |-> "clear_session", val |-> TRUE]
    /\ expired # {}
    /\ n_adds = 2
    /\ sessions = EmptyDict

\* The keys of the sessions of the users.
SessionIds == {get_session_id(u) : u \in UserIds}

\* The session is idle for longer than the timeout.
IdleTooLong(sid) ==
    /\ sid \in DOMAIN session_last_activity
    /\ now - session_last_activity[sid] > session_timeout

C19_InvalidInputRejected ==
    [][AddMessageInvalid => /\ ret'.op = "error"
                            /\ sessions' = sessions
                            /\ session_last_activity' = session_last_activity]_vars

\* C20: every step that changes the tables is one whole add_message, one
\* whole clear_session or one whole pass, scan and deletions together; a
\* session removed by a step of the cleanup coroutine is, at that step, idle
\* for longer than session_timeout by its current last activity.
C20_SweepActsOnCurrentActivity ==
    [][ /\ (sessions' # sessions \/ session_last_activity' # session_last_activity)
              => AddMessage \/ ClearSession \/ SweepPass \/ SweepFail
        /\ \A sid \in DOMAIN session_last_activity :
              (sweep_pc' # sweep_pc /\ sid \notin DOMAIN session_last_activity')
                  => /\ now - session_last_activity[sid] > session_timeout
                     /\ sid \in expired'
      ]_vars

\* C20 witness: a pass has just run over a session whose first message is
\* older than the timeout and whose last activity add_message has refreshed
\* since; the session is still there.
C20_Witness ==
    /\ JustSwept
    /\ \E sid \in DOMAIN sessions :
          /\ Len(appended[sid]) = 2
          /\ now - appended[sid][1].timestamp > session_timeout
          /\ now - session_last_activity[sid] <= session_timeout

\* The list a session holds after the complete add_message calls of its
\* log, one after the other.
RECURSIVE Replay(_, _)
Replay(log, cap) ==
    IF log = <<>> THEN <<>>
    ELSE LET n == Len(log)
             before == Replay(SubSeq(log, 1, n - 1), cap)
             full == Append(before, log[n])
         IN  IF Len(full) > cap /\ cap # 0
             THEN SubSeq(full, Len(full) - cap + 1, Len(full))
             ELSE full

\* The session table as complete operations leave it.
Committed == [sid \in DOMAIN appended |-> Replay(appended[sid], max_messages)]

\* What the read operation op may return for user_id on the table S.
ReadValues(S, op, user_id) ==
    CASE op = "get_conversation_history" ->
             {get_conversation_history(S, user_id, k) : k \in LastNArgs}
      [] op = "get_last_user_message" -> {get_last_user_message(S, user_id)}
      [] op = "get_last_bot_message" -> {get_last_bot_message(S, user_id)}
      [] op = "get_conversation_context" ->
             {get_conversation_context(S, user_id, n) : n \in 0..MaxK}
      [] op = "get_session_stats" -> {get_session_stats(S)}

\* C21: what a read returns, and what get_session_stats counts, is computed
\* from the session table as complete add_message, clear_session and
\* cleanup passes left it; a list as it is inside add_message, after the
\* append and before the truncation, is never what a read works on.
C21_ReadsSeeCommittedLists ==
    [][ReadStep => ret'.val \in ReadValues(Committed, ret'.op, ret'.user)]_vars

\* C21 witness: get_conversation_history returned the whole history of a
\* session into which add_message has evicted: as many records as the cap,
\* fewer than were appended.
C21_Witness ==
    /\ ret.op = "get_conversation_history"
    /\ max_messages >= 1
    /\ get_session_id(ret.user) \in DOMAIN sessions
    /\ Len(appended[get_session_id(ret.user)]) > max_messages
    /\ Len(ret.val) = max_messages

PassStep == sweep_pc = "scan" /\ sweep_pc' \in {"sleep", "backoff"}

\* The last message of the session was appended when the session had been
\* idle for longer than the timeout, and after the previous pass: the
\* previous pass completed at wake_at - SweepInterval (it removed nothing,
\* so it did not fail).
RefreshedLate(sid) ==
    LET log == appended[sid]
        n == Len(log)
    IN  /\ expired = {}
        /\ n >= 2
        /\ log[n].timestamp - log[n - 1].timestamp > session_timeout
        /\ log[n].timestamp > wake_at - SweepInterval

\* An add_message on a session idle for longer than the timeout keeps what
\* the session retained, as far as the cap allows, and refreshes the last
\* activity; a read returns the whole list of a session however long it
\* has been idle.
LateAddKeepsHistory ==
    /\ [][\A u \in UserIds :
            LET sid == get_session_id(u)
            IN  (IdleTooLong(sid) /\ sid \in DOMAIN sessions) =>
                  \A c \in Contents, s \in Senders :
                     add_message(u, c, s) =>
                        /\ IsSuffix(sessions'[sid],
                              Append(sessions[sid], ConversationMessage(c, s, now)))
                        /\ Len(sessions'[sid])
                              >= Min(Len(sessions[sid]) + 1, max_messages)
                        /\ session_last_activity'[sid] = now
         ]_vars
    /\ [](\A u \in UserIds :
            get_session_id(u) \in DOMAIN sessions =>
               get_conversation_history(sessions, u, None)
                  = Records(sessions[get_session_id(u)]))

\* C27 (as claimed): expiry is enforced by the cleanup coroutine only, and
\* after an add_message on a session already idle for longer than the
\* timeout the following pass does not remove the session.
C27_FollowingPassKeeps ==
    /\ LateAddKeepsHistory
    /\ [][PassStep =>
            \A sid \in DOMAIN sessions :
               RefreshedLate(sid) => sid \in DOMAIN sessions']_vars

\* C27 (amended): expiry is enforced by the cleanup coroutine only, and
\* after an add_message on a session already idle for longer than the
\* timeout the following pass removes the session exactly if, counted from
\* that add_message, it has again been idle for longer than the timeout.
C27_FollowingPassJudgesRefreshedActivity ==
    /\ LateAddKeepsHistory
    /\ [][PassStep =>
            \A sid \in DOMAIN sessions :
               RefreshedLate(sid) =>
                  (sid \in DOMAIN sessions'
                     <=> now - appended[sid][Len(appended[sid])].timestamp
                            <= session_timeout)]_vars

\* C27 witness: a pass has just run over a session whose last message was
\* appended after an idle period longer than the timeout, less than the
\* timeout ago; the session is still there with both messages.
C27_Witness ==
    /\ JustSwept
    /\ \E sid \in DOMAIN sessions :
          /\ Len(sessions[sid]) = 2
          /\ sessions[sid][2].timestamp - sessions[sid][1].timestamp > session_timeout
          /\ now - sessions[sid][2].timestamp <= session_timeout
          /\ session_last_activity[sid] = sessions[sid][2].timestamp

\* The calls of process_message that have returned for a caller who gave a
\* user id.
ReturnedFor(r) == requests[r].pc = "done" /\ requests[r].user # ""

\* C22: every process_message call with a non-empty user_id that returns a
\* response has made exactly one USER append, carrying the incoming text,
\* and after it exactly one BOT append, carrying the response it returns,
\* whichever path it took.
C22_OneUserAndOneBotAppend ==
    \A r \in ReqIds :
        ReturnedFor(r) =>
            LET a == requests[r].appends
            IN  /\ Len(a) = 2
                /\ a[1].sender = "user" /\ a[1].content = requests[r].message
                /\ a[2].sender = "bot" /\ a[2].content = requests[r].response

\* C23: a process_message call without user_id never creates, reads or
\* modifies a session, no session keyed on the empty identifier exists, and
\* its context is the start-of-conversation sentinel.
C23_NoUserIdSkipsMemory ==
    /\ get_session_id("") \notin DOMAIN sessions
    /\ \A r \in ReqIds :
          requests[r].pc # "idle" /\ requests[r].user = "" =>
              /\ requests[r].appends = <<>>
              /\ requests[r].mem_reads = {}
              /\ requests[r].context = StartSentinel

\* Two calls for the same user overlapped: one was waiting when the other
\* started.
Overlapped(r1, r2) ==
    /\ r1 # r2
    /\ requests[r1].user = requests[r2].user
    /\ r1 \in requests[r2].in_flight \/ r2 \in requests[r1].in_flight

\* Nothing was cleared, swept or evicted from the session of user_id.
NothingRemoved(user_id) ==
    LET sid == get_session_id(user_id)
    IN  /\ SumLens(appended, DOMAIN appended) = n_adds
        /\ sid \in DOMAIN sessions
        /\ sid \in DOMAIN appended
        /\ sessions[sid] = appended[sid]

\* The session of call r holds the call's user message and its reply at
\* the positions the call appended them to, the reply after the message.
HoldsBothAppends(r) ==
    LET a == requests[r].appends
        lst == sessions[get_session_id(requests[r].user)]
    IN  /\ Len(a) = 2
        /\ a[1].pos < a[2].pos
        /\ a[2].pos <= Len(lst)
        /\ lst[a[1].pos].sender = "user"
        /\ lst[a[1].pos].content = requests[r].message
        /\ lst[a[2].pos].sender = "bot"
        /\ lst[a[2].pos].content = requests[r].response

\* C26: when two process_message calls of one user overlapped and both
\* have returned, then, nothing having been cleared, swept or evicted, the
\* session holds both user messages and both replies, each once, each
\* reply after the user message of its own call.
C26_OverlapLosesNoAppend ==
    \A r1, r2 \in ReqIds :
        /\ ReturnedFor(r1) /\ ReturnedFor(r2)
        /\ Overlapped(r1, r2)
        /\ NothingRemoved(requests[r1].user)
        => /\ HoldsBothAppends(r1)
           /\ HoldsBothAppends(r2)
           /\ Len(sessions[get_session_id(requests[r1].user)]) = 4

\* C28: when process_message starts with a non-empty user_id, the context
\* it hands to intent analysis is rendered from the session as it is right
\* after the incoming message was appended: its last line is
\* "Customer: <the current message>", preceded by the lines of the messages
\* before it in the window, whatever other calls are in flight.
C28_ContextEndsWithCurrentMessage ==
    [][\A r \in ReqIds :
          requests[r].pc = "idle" /\ requests'[r].pc # "idle"
          /\ requests'[r].user # ""
          => LET lst == sessions'[get_session_id(requests'[r].user)]
                 win == LastMin(lst, DefaultContextLength)
                 front == SubSeq(win, 1, Len(win) - 1)
                 last == "Customer: " \o requests'[r].message
             IN  /\ lst[Len(lst)].sender = "user"
                 /\ lst[Len(lst)].content = requests'[r].message
                 /\ requests'[r].context =
                       IF front = <<>> THEN last
                       ELSE Transcript(front) \o "\n" \o last]_vars

C28_Witness ==
    /\ requests[2].pc = "intent"
    /\ requests[2].in_flight = {1}
    /\ requests[1].user = requests[2].user
    /\ requests[2].user # ""
    /\ requests[1].message # requests[2].message
    /\ requests[2].context = "Customer: " \o requests[1].message \o "\n"
                             \o "Customer: " \o requests[2].message

\* The turns cleanup_old_sessions finds too old: the most recent one was
\* added more than session_timeout ago.
StaleSessions ==
    {sid \in DOMAIN conversations :
        /\ conversations[sid] # <<>>
        /\ now - fromisoformat(conversations[sid][Len(conversations[sid])].timestamp)
              > session_timeout}

\* A step of cleanup_old_sessions: it is the method called last and the
\* clock did not move.
CleanupStep == ret'.op = "cleanup_old_sessions" /\ now' = now

\* C29: every turn list of the ConversationMemoryManager has at most
\* max_history_length turns, and they are the most recently added ones in
\* the order they were added.
C29_TurnsWithinHistoryLength ==
    \A sid \in DOMAIN conversations :
        /\ Len(conversations[sid]) <= max_history_length
        /\ sid \in DOMAIN appended
        /\ conversations[sid] = LastMin(appended[sid], max_history_length)

\* C30: cleanup_old_sessions removes the turns and the context of every
\* session whose most recent turn is older than session_timeout, leaves the
\* turns and the context of every other session as they were, and leaves
\* no session context behind for a session without a turn that is at most
\* session_timeout old.
C30_CleanupRemovesOldSessions ==
    [][CleanupStep =>
          /\ \A sid \in StaleSessions :
                sid \notin DOMAIN conversations' /\ sid \notin DOMAIN session_contexts'
          /\ \A sid \in ManagerSessionIds \ StaleSessions :
                /\ sid \in DOMAIN conversations <=> sid \in DOMAIN conversations'
                /\ sid \in DOMAIN conversations =>
                      conversations'[sid] = conversations[sid]
                /\ sid \in DOMAIN session_contexts <=> sid \in DOMAIN session_contexts'
                /\ sid \in DOMAIN session_contexts =>
                      session_contexts'[sid] = session_contexts[sid]
          /\ \A sid \in DOMAIN session_contexts' :
                /\ sid \in DOMAIN conversations'
                /\ \E i \in 1..Len(conversations'[sid]) :
                      now' - fromisoformat(conversations'[sid][i].timestamp)
                         <= session_timeout]_vars

====
